---- MODULE Spec2Model ----
(***************************************************************************)
(* Model of rustboyadvance-ng:                                             *)
(*   - src/sysbus.rs: BoxedMemory, DummyBus, SysBus and call_bus_method    *)
(*   - src/arm7tdmi/arm/display.rs: textual rendering of ArmInstruction    *)
(*                                                                         *)
(* 32-bit words (u32 / i32 / Addr) are kept as two 16-bit halves           *)
(* [hi, lo], so that every bit pattern of a word is representable and      *)
(* wrap-around and overflow are computed, not assumed.                     *)
(***************************************************************************)
EXTENDS Integers, Sequences, FiniteSets, TLC

VARIABLES sysbus, last, history, panicked, insn, out, overflow_checks

vars == <<sysbus, last, history, panicked, insn, out, overflow_checks>>

busvars == <<sysbus, last, history, panicked>>

dispvars == <<insn, out, overflow_checks>>

\* Bound on the number of bus writes logged in one behaviour.
MaxWrites == 2

(***************************************************************************)
(* 32-bit words                                                            *)
(***************************************************************************)
U32(h, l) == [hi |-> h, lo |-> l]

Zero32 == U32(0, 0)

\* a <= b on unsigned 32-bit words
Le32(a, b) == a.hi < b.hi \/ (a.hi = b.hi /\ a.lo <= b.lo)

\* a word below 2^31 as an integer (offsets after masking are below 2^24)
ToInt(a) == a.hi * 65536 + a.lo

\* addr & 0xff_ffff
Mask24(addr) == U32(addr.hi % 256, addr.lo)

\* byte i (0 = least significant) of a 32-bit word
ByteOf(v, i) ==
    CASE i = 0 -> v.lo % 256
      [] i = 1 -> v.lo \div 256
      [] i = 2 -> v.hi % 256
      [] i = 3 -> v.hi \div 256

(***************************************************************************)
(* Byte buffers (Box<[u8]>).  A buffer of len bytes is kept as its initial *)
(* content (fill) and the bytes stored since (upd), so that a 256 KiB      *)
(* buffer is a small value.                                                *)
(***************************************************************************)
Fill(f, i) == IF f = "ramp" THEN (i * 7 + 1) % 256 ELSE 0

NewBuf(n, f) == [len |-> n, fill |-> f, upd |-> <<>>]

ByteAt(buf, i) == IF i \in DOMAIN buf.upd THEN buf.upd[i] ELSE Fill(buf.fill, i)

Store(buf, i, b) ==
    LET d == IF b = Fill(buf.fill, i) THEN DOMAIN buf.upd \ {i}
                                      ELSE DOMAIN buf.upd \cup {i}
    IN [buf EXCEPT !.upd = [j \in d |-> IF j = i THEN b ELSE buf.upd[j]]]

RECURSIVE StoreBytes(_, _, _)
StoreBytes(buf, i, bs) ==
    IF bs = <<>> THEN buf
    ELSE StoreBytes(Store(buf, i, Head(bs)), i + 1, Tail(bs))

Min(a, b) == IF a < b THEN a ELSE b

\* std::io::Write for &mut [u8]: write_all copies as many bytes as fit and
\* fails when the slice is too short; the caller unwraps the result.
WriteAll(buf, start, bs) ==
    LET n == Min(Len(bs), buf.len - start)
    IN [buf |-> StoreBytes(buf, start, SubSeq(bs, 1, n)),
        ok |-> n = Len(bs),
        written |-> SubSeq(bs, 1, n)]

\* variant: most significant byte first
LE32_big_endian(v) == <<ByteOf(v, 3), ByteOf(v, 2), ByteOf(v, 1), ByteOf(v, 0)>>

\* byteorder::LittleEndian encodings
LE32(v) == <<ByteOf(v, 0), ByteOf(v, 1), ByteOf(v, 2), ByteOf(v, 3)>>

LE16(v) == <<v % 256, v \div 256>>

Ok(v) == [ok |-> TRUE, val |-> v]

Panic == [ok |-> FALSE, val |-> 0]

(***************************************************************************)
(* WaitState and BoxedMemory                                               *)
(***************************************************************************)
WaitState_new(a8, a16, a32) == [access8 |-> a8, access16 |-> a16, access32 |-> a32]

WaitState_default == WaitState_new(1, 1, 1)

BoxedMemory_new(boxed_slice) == [buf |-> boxed_slice, ws |-> WaitState_default]

BoxedMemory_new_with_waitstate(boxed_slice, w) == [buf |-> boxed_slice, ws |-> w]

\* &self.0[addr as usize..] panics when addr is past the end of the buffer
SliceOk(mem, addr) == addr <= mem.buf.len

BoxedMemory_read_32(mem, addr) ==
    IF SliceOk(mem, addr) /\ mem.buf.len - addr >= 4
    THEN Ok(U32(ByteAt(mem.buf, addr + 2) + 256 * ByteAt(mem.buf, addr + 3),
                ByteAt(mem.buf, addr) + 256 * ByteAt(mem.buf, addr + 1)))
    ELSE Panic

BoxedMemory_read_16(mem, addr) ==
    IF SliceOk(mem, addr) /\ mem.buf.len - addr >= 2
    THEN Ok(ByteAt(mem.buf, addr) + 256 * ByteAt(mem.buf, addr + 1))
    ELSE Panic

BoxedMemory_read_8(mem, addr) ==
    IF SliceOk(mem, addr) /\ mem.buf.len - addr >= 1
    THEN Ok(ByteAt(mem.buf, addr))
    ELSE Panic

\* the three stores return the memory after the call, whether the call
\* returned, and the bytes it stored
BoxedMemory_write(mem, addr, bs) ==
    IF SliceOk(mem, addr)
    THEN LET w == WriteAll(mem.buf, addr, bs)
         IN [mem |-> [mem EXCEPT !.buf = w.buf], ok |-> w.ok, written |-> w.written]
    ELSE [mem |-> mem, ok |-> FALSE, written |-> <<>>]

BoxedMemory_write_32(mem, addr, value) == BoxedMemory_write(mem, addr, LE32(value))

BoxedMemory_write_16(mem, addr, value) == BoxedMemory_write(mem, addr, LE16(value))

BoxedMemory_write_8(mem, addr, value) == BoxedMemory_write(mem, addr, <<value>>)

\* a byte-slice view: the region's bytes from start to the buffer's end
BoxedMemory_get_bytes(mem, addr) ==
    IF SliceOk(mem, addr)
    THEN Ok([start |-> addr, len |-> mem.buf.len - addr])
    ELSE Panic

\* variant: the 16-bit and 32-bit costs are swapped
BoxedMemory_get_cycles_swapped(mem, addr, width) ==
    CASE width = 8 -> mem.ws.access8
      [] width = 16 -> mem.ws.access32
      [] width = 32 -> mem.ws.access16

BoxedMemory_get_cycles(mem, addr, width) ==
    CASE width = 8 -> mem.ws.access8
      [] width = 16 -> mem.ws.access16
      [] width = 32 -> mem.ws.access32

(***************************************************************************)
(* DummyBus                                                                *)
(***************************************************************************)
DummyBus_new == <<0, 0, 0, 0>>

DummyBus_read_32(d, addr) == Ok(Zero32)

\* variant: the open bus floats high
DummyBus_read_16_high(d, addr) == Ok(65535)

DummyBus_read_16(d, addr) == Ok(0)

DummyBus_read_8(d, addr) == Ok(0)

DummyBus_write(d, addr, bs) == [mem |-> d, ok |-> TRUE, written |-> <<>>]

DummyBus_get_bytes(d, addr) == Ok([start |-> 0, len |-> Len(d)])

DummyBus_get_cycles(d, addr, width) == 1

(***************************************************************************)
(* SysBus                                                                  *)
(***************************************************************************)
\* variant: video RAM allocated as 64 KiB
VIDEO_RAM_SIZE_64K == 64 * 1024

VIDEO_RAM_SIZE == 128 * 1024

WORK_RAM_SIZE == 256 * 1024

INTERNAL_RAM == 32 * 1024

PALETTE_RAM_SIZE == 1 * 1024

OAM_SIZE == 1 * 1024

\* IoRegs::default() and the Cartridge handed to SysBus::new: byte buffers
\* behind the Bus capability
IoRegs_default == BoxedMemory_new(NewBuf(1024, "zero"))

Cartridge_new(rom_len) == BoxedMemory_new(NewBuf(rom_len, "ramp"))

SysBus_new(bios_rom, cartridge) ==
    [bios |-> BoxedMemory_new(bios_rom),
     onboard_work_ram |->
         BoxedMemory_new_with_waitstate(NewBuf(WORK_RAM_SIZE, "zero"), WaitState_new(3, 3, 6)),
     internal_work_ram |-> BoxedMemory_new(NewBuf(INTERNAL_RAM, "zero")),
     ioregs |-> IoRegs_default,
     palette_ram |->
         BoxedMemory_new_with_waitstate(NewBuf(PALETTE_RAM_SIZE, "zero"), WaitState_new(1, 1, 2)),
     vram |->
         BoxedMemory_new_with_waitstate(NewBuf(VIDEO_RAM_SIZE, "zero"), WaitState_new(1, 1, 2)),
     oam |-> BoxedMemory_new(NewBuf(OAM_SIZE, "zero")),
     gamepak |-> cartridge,
     dummy |-> DummyBus_new]

\* variant: the IO register arm ends at 0x0400_03ff like its neighbours
BusRanges_io_off_by_one ==
    << [first |-> U32(0, 0),    last |-> U32(0, 16383),    region |-> "bios"],
       [first |-> U32(512, 0),  last |-> U32(515, 65535),  region |-> "onboard_work_ram"],
       [first |-> U32(768, 0),  last |-> U32(768, 32767),  region |-> "internal_work_ram"],
       [first |-> U32(1024, 0), last |-> U32(1024, 1023),  region |-> "ioregs"],
       [first |-> U32(1280, 0), last |-> U32(1280, 1023),  region |-> "palette_ram"],
       [first |-> U32(1536, 0), last |-> U32(1537, 32767), region |-> "vram"],
       [first |-> U32(1792, 0), last |-> U32(1792, 1023),  region |-> "oam"],
       [first |-> U32(2048, 0), last |-> U32(2559, 65535), region |-> "gamepak"] >>

\* the match arms of call_bus_method, in source order (inclusive ranges)
BusRanges ==
    << [first |-> U32(0, 0),    last |-> U32(0, 16383),    region |-> "bios"],
       [first |-> U32(512, 0),  last |-> U32(515, 65535),  region |-> "onboard_work_ram"],
       [first |-> U32(768, 0),  last |-> U32(768, 32767),  region |-> "internal_work_ram"],
       [first |-> U32(1024, 0), last |-> U32(1024, 1022),  region |-> "ioregs"],
       [first |-> U32(1280, 0), last |-> U32(1280, 1023),  region |-> "palette_ram"],
       [first |-> U32(1536, 0), last |-> U32(1537, 32767), region |-> "vram"],
       [first |-> U32(1792, 0), last |-> U32(1792, 1023),  region |-> "oam"],
       [first |-> U32(2048, 0), last |-> U32(2559, 65535), region |-> "gamepak"] >>

InArm(arm, a) == Le32(arm.first, a) /\ Le32(a, arm.last)

\* variant: the address is masked before it is matched
MatchedAddr_masked(addr) == Mask24(addr)

\* the value `match $addr as usize` scrutinises: the address as passed in
MatchedAddr(addr) == addr

\* the first matching arm selects the member; `_` selects the dummy
call_bus_method(addr) ==
    LET a == MatchedAddr(addr)
        hits == {i \in 1..Len(BusRanges) : InArm(BusRanges[i], a)}
    IN IF hits = {} THEN "dummy"
       ELSE BusRanges[CHOOSE i \in hits : \A j \in hits : i <= j].region

\* the argument every method hands to the member: addr & 0xff_ffff
BusOffset(addr) == ToInt(Mask24(addr))

SysBus_read_32(bus, addr) ==
    LET r == call_bus_method(addr)
    IN IF r = "dummy" THEN DummyBus_read_32(bus.dummy, BusOffset(addr))
       ELSE BoxedMemory_read_32(bus[r], BusOffset(addr))

SysBus_read_16(bus, addr) ==
    LET r == call_bus_method(addr)
    IN IF r = "dummy" THEN DummyBus_read_16(bus.dummy, BusOffset(addr))
       ELSE BoxedMemory_read_16(bus[r], BusOffset(addr))

SysBus_read_8(bus, addr) ==
    LET r == call_bus_method(addr)
    IN IF r = "dummy" THEN DummyBus_read_8(bus.dummy, BusOffset(addr))
       ELSE BoxedMemory_read_8(bus[r], BusOffset(addr))

\* the bus after the store, whether the call returned, and what was stored
SysBus_write(bus, addr, bs) ==
    LET r == call_bus_method(addr)
        w == IF r = "dummy" THEN DummyBus_write(bus.dummy, BusOffset(addr), bs)
             ELSE BoxedMemory_write(bus[r], BusOffset(addr), bs)
    IN [bus |-> [bus EXCEPT ![r] = w.mem], ok |-> w.ok, written |-> w.written]

SysBus_write_32(bus, addr, value) == SysBus_write(bus, addr, LE32(value))

\* variant: the 16-bit store is carried out as a 32-bit one
SysBus_write_16_wide(bus, addr, value) == SysBus_write(bus, addr, LE32(U32(0, value)))

SysBus_write_16(bus, addr, value) == SysBus_write(bus, addr, LE16(value))

SysBus_write_8(bus, addr, value) == SysBus_write(bus, addr, <<value>>)

SysBus_get_bytes(bus, addr) ==
    LET r == call_bus_method(addr)
    IN IF r = "dummy" THEN DummyBus_get_bytes(bus.dummy, BusOffset(addr))
       ELSE BoxedMemory_get_bytes(bus[r], BusOffset(addr))

SysBus_get_bytes_mut(bus, addr) == SysBus_get_bytes(bus, addr)

SysBus_get_cycles(bus, addr, width) ==
    LET r == call_bus_method(addr)
    IN IF r = "dummy" THEN DummyBus_get_cycles(bus.dummy, BusOffset(addr), width)
       ELSE BoxedMemory_get_cycles(bus[r], BusOffset(addr), width)

(***************************************************************************)
(* Arithmetic on 32-bit words.  Addr is u32; an i32 is kept as its bit     *)
(* pattern, so `x as i32` and `x as Addr` leave the word as it is.         *)
(***************************************************************************)
\* the sum modulo 2^32
wrapping_add(a, b) ==
    LET l == a.lo + b.lo
        h == a.hi + b.hi + (l \div 65536)
    IN U32(h % 65536, l % 65536)

\* the carry out of bit 31
CarryOut(a, b) == a.hi + b.hi + ((a.lo + b.lo) \div 65536) >= 65536

Negative(a) == a.hi >= 32768

\* the signed sum does not fit an i32
SignedOverflow(a, b) ==
    /\ Negative(a) = Negative(b)
    /\ Negative(wrapping_add(a, b)) # Negative(a)

\* `a + b` on u32: wraps, or panics when the build checks overflow
AddU32(a, b, checks) ==
    IF checks /\ CarryOut(a, b) THEN [ok |-> FALSE, val |-> Zero32]
    ELSE Ok(wrapping_add(a, b))

\* `a + b` on i32
AddI32(a, b, checks) ==
    IF checks /\ SignedOverflow(a, b) THEN [ok |-> FALSE, val |-> Zero32]
    ELSE Ok(wrapping_add(a, b))

\* the value of an i32 bit pattern
I32Value(a) == IF Negative(a) THEN (a.hi - 65536) * 65536 + a.lo ELSE a.hi * 65536 + a.lo

(***************************************************************************)
(* core::fmt: text is a sequence of tokens                                 *)
(***************************************************************************)
HexDigits == <<"0", "1", "2", "3", "4", "5", "6", "7", "8", "9", "a", "b", "c", "d", "e", "f">>

RECURSIVE LowerHex(_)
LowerHex(n) ==
    IF n < 16 THEN <<HexDigits[n + 1]>>
    ELSE Append(LowerHex(n \div 16), HexDigits[(n % 16) + 1])

LowerHex4(n) ==
    <<HexDigits[(n \div 4096) + 1], HexDigits[((n \div 256) % 16) + 1],
      HexDigits[((n \div 16) % 16) + 1], HexDigits[(n % 16) + 1]>>

\* {:#x} of a u32, and of an i32 (which prints its two's complement bits)
FmtHexAlt(v) ==
    <<"0x">> \o (IF v.hi = 0 THEN LowerHex(v.lo) ELSE LowerHex(v.hi) \o LowerHex4(v.lo))

RECURSIVE Decimal(_)
Decimal(n) ==
    IF n < 10 THEN <<HexDigits[n + 1]>>
    ELSE Append(Decimal(n \div 10), HexDigits[(n % 10) + 1])

\* {} of an i32
FmtI32(v) ==
    IF Negative(v) THEN <<"-">> \o Decimal(0 - I32Value(v)) ELSE Decimal(I32Value(v))

(***************************************************************************)
(* display.rs                                                              *)
(***************************************************************************)
REG_PC == 15

RegNames ==
    <<"r0", "r1", "r2", "r3", "r4", "r5", "r6", "r7",
      "r8", "r9", "r10", "r11", "r12", "sp", "lr", "pc">>

reg_string(r) == RegNames[r + 1]

\* impl fmt::Display for ArmCond
ArmCond_fmt(cond) ==
    CASE cond = "EQ" -> <<"eq">>
      [] cond = "NE" -> <<"ne">>
      [] cond = "HS" -> <<"cs">>
      [] cond = "LO" -> <<"cc">>
      [] cond = "MI" -> <<"mi">>
      [] cond = "PL" -> <<"pl">>
      [] cond = "VS" -> <<"vs">>
      [] cond = "VC" -> <<"vc">>
      [] cond = "HI" -> <<"hi">>
      [] cond = "LS" -> <<"ls">>
      [] cond = "GE" -> <<"ge">>
      [] cond = "LT" -> <<"lt">>
      [] cond = "GT" -> <<"gt">>
      [] cond = "LE" -> <<"le">>
      [] cond = "AL" -> <<>>

\* impl fmt::Display for BarrelShiftOpCode
BarrelShiftOpCode_fmt(typ) ==
    CASE typ = "LSL" -> "lsl"
      [] typ = "LSR" -> "lsr"
      [] typ = "ASR" -> "asr"
      [] typ = "ROR" -> "ror"

\* impl fmt::Display for ArmHalfwordTransferType
ArmHalfwordTransferType_fmt(t) ==
    CASE t = "UnsignedHalfwords" -> "h"
      [] t = "SignedHalfwords" -> "sh"
      [] t = "SignedByte" -> "sb"

\* ShiftedRegister::ByAmount(val, typ) / ShiftedRegister::ByRegister(rs, typ)
ByAmount(val, typ) == [kind |-> "ByAmount", val |-> val, typ |-> typ]

ByRegister(rs, typ) == [kind |-> "ByRegister", val |-> rs, typ |-> typ]

\* BarrelShifterValue::ImmediateValue / BarrelShifterValue::ShiftedRegister
ImmediateValue(value) ==
    [kind |-> "ImmediateValue", value |-> value, reg |-> 0,
     shift |-> ByAmount(0, "LSL"), added |-> "None"]

ShiftedRegister(reg, shift, added) ==
    [kind |-> "ShiftedRegister", value |-> Zero32, reg |-> reg,
     shift |-> shift, added |-> added]

\* variant: any zero amount is taken as no shift
is_shift_zero_amount(shift) ==
    IF shift.kind = "ByAmount" THEN ~(shift.val = 0) ELSE TRUE

is_shift(shift) ==
    IF shift.kind = "ByAmount"
    THEN ~(shift.val = 0 /\ shift.typ = "LSL")
    ELSE TRUE

make_shifted_reg_string(reg, shift) ==
    IF ~is_shift(shift) THEN <<reg_string(reg)>>
    ELSE IF shift.kind = "ByAmount"
         THEN <<reg_string(reg), ", ", BarrelShiftOpCode_fmt(shift.typ), " #">>
                  \o Decimal(shift.val)
         ELSE <<reg_string(reg), ", ", BarrelShiftOpCode_fmt(shift.typ), " ",
                reg_string(shift.val)>>

\* a formatter: what has been written, and whether the call returned
Written(t) == [status |-> "ok", text |-> t]

Panicked(t) == [status |-> "panic", text |-> t]

NotRendered == [status |-> "none", text |-> <<>>]

fmt_branch(i, checks) ==
    LET ofs == AddU32(U32(0, 8), wrapping_add(i.pc, i.branch_offset), checks)
    IN IF ofs.ok
       THEN Written(<<"b">> \o (IF i.link_flag THEN <<"l">> ELSE <<>>)
                        \o ArmCond_fmt(i.cond) \o <<"\t">> \o FmtHexAlt(ofs.val))
       ELSE Panicked(<<>>)

set_cond_mark(i) == IF i.set_cond_flag THEN <<"s">> ELSE <<>>

auto_incremenet_mark(i) == IF i.write_back_flag THEN <<"!">> ELSE <<>>

\* continues the text `pre` already written for the instruction
fmt_rn_offset(i, pre, offset, checks) ==
    LET open == pre \o <<"[", reg_string(i.rn)>>
        close(ofs_string, comment) ==
            open \o (IF i.pre_index_flag
                     THEN <<", ">> \o ofs_string \o <<"]">> \o auto_incremenet_mark(i)
                     ELSE <<"], ">> \o ofs_string)
                 \o comment
    IN IF offset.kind = "ImmediateValue"
       THEN LET s1 == AddI32(offset.value, i.pc, checks)
                s2 == IF s1.ok THEN AddI32(s1.val, U32(0, 8), checks) ELSE s1
                value_for_commnet == IF i.rn = REG_PC THEN s2 ELSE Ok(offset.value)
            IN IF value_for_commnet.ok
               THEN Written(close(<<"#">> \o FmtI32(offset.value),
                                  <<"\t; ">> \o FmtHexAlt(value_for_commnet.val)))
               ELSE Panicked(open)
       ELSE IF offset.kind = "ShiftedRegister" /\ offset.added # "None"
       THEN Written(close((IF offset.added = "Some(true)" THEN <<>> ELSE <<"-">>)
                              \o make_shifted_reg_string(offset.reg, offset.shift),
                          <<>>))
       ELSE Panicked(open)

fmt_ldr_str(i, checks) ==
    fmt_rn_offset(i,
        <<(IF i.load_flag THEN "ldr" ELSE "str")>>
            \o (IF i.transfer_size = 1 THEN <<"b">> ELSE <<>>)
            \o (IF ~i.pre_index_flag /\ i.write_back_flag THEN <<"t">> ELSE <<>>)
            \o ArmCond_fmt(i.cond) \o <<"\t", reg_string(i.rd), ", ">>,
        i.ldr_str_offset, checks)

fmt_mul_mla(i) ==
    IF i.accumulate_flag
    THEN Written(<<"mla">> \o set_cond_mark(i) \o ArmCond_fmt(i.cond)
                     \o <<"\t", reg_string(i.rd), ", ", reg_string(i.rm), ", ",
                          reg_string(i.rs), ", ", reg_string(i.rn)>>)
    ELSE Written(<<"mul">> \o set_cond_mark(i) \o ArmCond_fmt(i.cond)
                     \o <<"\t", reg_string(i.rd), ", ", reg_string(i.rm), ", ",
                          reg_string(i.rs)>>)

sign_mark(i) == IF i.u_flag THEN "s" ELSE "u"

fmt_mull_mlal(i) ==
    IF i.accumulate_flag
    THEN Written(<<sign_mark(i), "mlal">> \o set_cond_mark(i) \o ArmCond_fmt(i.cond)
                     \o <<"\t", reg_string(i.rd_lo), ", ", reg_string(i.rd_hi), ", ",
                          reg_string(i.rm), ", ", reg_string(i.rs)>>)
    ELSE Written(<<sign_mark(i), "mull">> \o set_cond_mark(i) \o ArmCond_fmt(i.cond)
                     \o <<"\t", reg_string(i.rd_lo), ", ", reg_string(i.rd_hi), ", ",
                          reg_string(i.rm)>>)

fmt_ldr_str_hs(i, checks) ==
    IF i.halfword_data_transfer_type.ok
    THEN IF i.ldr_str_hs_offset.ok
         THEN fmt_rn_offset(i,
                  <<(IF i.load_flag THEN "ldr" ELSE "str"),
                    ArmHalfwordTransferType_fmt(i.halfword_data_transfer_type.val)>>
                      \o ArmCond_fmt(i.cond) \o <<"\t", reg_string(i.rd), ", ">>,
                  i.ldr_str_hs_offset.val, checks)
         ELSE Panicked(<<(IF i.load_flag THEN "ldr" ELSE "str"),
                         ArmHalfwordTransferType_fmt(i.halfword_data_transfer_type.val)>>
                           \o ArmCond_fmt(i.cond) \o <<"\t", reg_string(i.rd), ", ">>)
    ELSE Written(<<"<undefined>">>)

(***************************************************************************)
(* Decoded instructions: the values the accessors of ArmInstruction        *)
(* return, and the program counter at fetch.                               *)
(***************************************************************************)
NoInsn ==
    [fmt |-> "none", cond |-> "AL", pc |-> Zero32,
     link_flag |-> FALSE, branch_offset |-> Zero32,
     load_flag |-> FALSE, transfer_size |-> 4, pre_index_flag |-> FALSE,
     write_back_flag |-> FALSE, set_cond_flag |-> FALSE,
     accumulate_flag |-> FALSE, u_flag |-> FALSE,
     rd |-> 0, rn |-> 0, rm |-> 0, rs |-> 0, rd_lo |-> 0, rd_hi |-> 0,
     ldr_str_offset |-> ImmediateValue(Zero32),
     halfword_data_transfer_type |-> Ok("UnsignedHalfwords"),
     ldr_str_hs_offset |-> Ok(ImmediateValue(Zero32))]

\* 0x0, 0x1000, 0x2000, 0x7FFF_FFF8, 0x8000_0000, 0xFFFF_FFF8
FetchPCs ==
    { U32(0, 0), U32(0, 4096), U32(0, 8192), U32(32767, 65528), U32(32768, 0),
      U32(65535, 65528) }

\* -8, 0, +8, +0x01FF_FFFC, -0x0200_0000 (the ends of the 24-bit word offset)
BranchOffsets ==
    { U32(65535, 65528), U32(0, 0), U32(0, 8), U32(511, 65532), U32(65024, 0) }

\* +4, -4, 0, +4095, -4095
ImmOffsets == { U32(0, 4), U32(65535, 65532), U32(0, 0), U32(0, 4095), U32(65535, 61441) }

\* +4, -4, +255
HsImmOffsets == { U32(0, 4), U32(65535, 65532), U32(0, 255) }

ShiftOps == {"LSL", "LSR", "ASR", "ROR"}

Shifts ==
    {ByAmount(v, t) : v \in {0, 1, 31}, t \in ShiftOps}
        \cup {ByRegister(2, t) : t \in ShiftOps}

RegOffsets ==
    {ShiftedRegister(3, sh, a) : sh \in Shifts, a \in {"Some(true)", "Some(false)"}}

Conds == {"AL", "EQ", "HS"}

BranchInsns ==
    {[NoInsn EXCEPT !.fmt = "B_BL", !.cond = c, !.pc = p, !.link_flag = l,
                    !.branch_offset = o] :
        c \in {"AL", "EQ"}, p \in FetchPCs, l \in BOOLEAN, o \in BranchOffsets}

LdrStrInsns ==
    {[NoInsn EXCEPT !.fmt = "LDR_STR", !.pc = p, !.load_flag = l,
                    !.transfer_size = IF l THEN 4 ELSE 1,
                    !.pre_index_flag = pre, !.write_back_flag = wb,
                    !.rd = 0, !.rn = n, !.ldr_str_offset = o] :
        p \in FetchPCs, l \in BOOLEAN, pre \in BOOLEAN, wb \in BOOLEAN,
        n \in {1, REG_PC},
        o \in {ImmediateValue(v) : v \in ImmOffsets} \cup RegOffsets
                \cup {ShiftedRegister(3, ByAmount(0, "LSL"), "None")}}

HalfwordTypes ==
    {Ok("UnsignedHalfwords"), Ok("SignedHalfwords"), Ok("SignedByte"),
     [ok |-> FALSE, val |-> "UnsignedHalfwords"]}

LdrStrHsInsns ==
    {[NoInsn EXCEPT !.fmt = f, !.pc = p, !.load_flag = l,
                    !.pre_index_flag = pre, !.cond = "HS",
                    !.rd = 4, !.rn = n, !.halfword_data_transfer_type = t,
                    !.ldr_str_hs_offset = Ok(o)] :
        f \in {"LDR_STR_HS_IMM"}, p \in FetchPCs, l \in BOOLEAN, pre \in BOOLEAN,
        n \in {1, REG_PC}, t \in HalfwordTypes,
        o \in {ImmediateValue(v) : v \in HsImmOffsets}}
      \cup
    {[NoInsn EXCEPT !.fmt = f, !.pc = p, !.load_flag = l,
                    !.pre_index_flag = pre, !.cond = "HS",
                    !.rd = 4, !.rn = n, !.halfword_data_transfer_type = t,
                    !.ldr_str_hs_offset = Ok(o)] :
        f \in {"LDR_STR_HS_REG"}, p \in {U32(0, 4096)}, l \in BOOLEAN, pre \in BOOLEAN,
        n \in {1, REG_PC}, t \in HalfwordTypes,
        o \in {ShiftedRegister(3, ByAmount(0, "LSL"), a) : a \in {"Some(true)", "Some(false)"}}}

MulInsns ==
    {[NoInsn EXCEPT !.fmt = f, !.cond = c, !.set_cond_flag = sc,
                    !.accumulate_flag = acc, !.u_flag = u,
                    !.rd = r[1], !.rn = r[2], !.rd_hi = r[1], !.rd_lo = r[2],
                    !.rm = r[3], !.rs = r[4]] :
        f \in {"MUL_MLA", "MULL_MLAL"}, c \in Conds, sc \in BOOLEAN,
        acc \in BOOLEAN, u \in BOOLEAN,
        r \in {<<0, 1, 2, 3>>, <<7, 6, 5, 4>>, <<1, 0, 2, 2>>}}

Insns == BranchInsns \cup LdrStrInsns \cup LdrStrHsInsns \cup MulInsns

(***************************************************************************)
(* The bus as a state machine: one action per Bus method of SysBus.        *)
(* `last` is the call just made and what it returned; `history` logs the   *)
(* bytes each store put into a member; a panic ends the run.               *)
(***************************************************************************)
\* 0x0200_1000, 0x0200_1001, 0x0A20_1000, 0x0000_3FFE
BusAddrs == { U32(512, 4096), U32(512, 4097), U32(2592, 4096), U32(0, 16382) }

\* the first and last address of every arm and their neighbours, the top of
\* the address space, and 0x0200_1000 / 0x0A20_1000
BoundaryAddrs ==
    { U32(0, 0), U32(0, 16383), U32(0, 16384),
      U32(511, 65535), U32(512, 0), U32(515, 65535), U32(516, 0),
      U32(767, 65535), U32(768, 0), U32(768, 32767), U32(768, 32768),
      U32(1023, 65535), U32(1024, 0), U32(1024, 1022), U32(1024, 1023),
      U32(1279, 65535), U32(1280, 0), U32(1280, 1023), U32(1280, 1024),
      U32(1535, 65535), U32(1536, 0), U32(1537, 32767), U32(1537, 32768),
      U32(1791, 65535), U32(1792, 0), U32(1792, 1023), U32(1792, 1024),
      U32(2047, 65535), U32(2048, 0), U32(2559, 65535), U32(2560, 0),
      U32(32768, 0), U32(65535, 65535),
      U32(512, 4096), U32(2592, 4096) }

\* 0xDEADC0DE / 0xBEEF / 0xAB
Values32 == { U32(57005, 49374) }

Values16 == { 48879 }

Values8 == { 171 }

\* a full 16 KiB boot ROM image, and a truncated one
BiosRoms == { NewBuf(16384, "ramp"), NewBuf(8192, "ramp") }

Cartridges == { Cartridge_new(512) }

NoCall == [op |-> "none", addr |-> Zero32, width |-> 0, value |-> Zero32, result |-> Ok(Zero32)]

Call(o, a, w, v, r) == [op |-> o, addr |-> a, width |-> w, value |-> v, result |-> r]

\* results as recorded in `last`: every numeric result widened to a word
Word(r) == IF r.ok THEN Ok(U32(0, r.val)) ELSE [ok |-> FALSE, val |-> Zero32]

Word32(r) == IF r.ok THEN r ELSE [ok |-> FALSE, val |-> Zero32]

\* a method that takes &self: the bus is left as it is
Observe(o, a, w, r) ==
    /\ last' = Call(o, a, w, Zero32, r)
    /\ panicked' = ~r.ok
    /\ UNCHANGED <<sysbus, history, dispvars>>

\* a method that takes &mut self and stores
Mutate(o, a, w, v, res) ==
    /\ Len(history) < MaxWrites
    /\ sysbus' = res.bus
    /\ last' = Call(o, a, w, v, [ok |-> res.ok, val |-> Zero32])
    /\ panicked' = ~res.ok
    /\ history' = IF res.written = <<>> THEN history
                  ELSE Append(history, [region |-> call_bus_method(a),
                                        off |-> BusOffset(a),
                                        value |-> v,
                                        n |-> Len(res.written)])
    /\ UNCHANGED dispvars

read_32(A) ==
    /\ ~panicked
    /\ \E addr \in A : Observe("read_32", addr, 32, Word32(SysBus_read_32(sysbus, addr)))

read_16(A) ==
    /\ ~panicked
    /\ \E addr \in A : Observe("read_16", addr, 16, Word(SysBus_read_16(sysbus, addr)))

read_8(A) ==
    /\ ~panicked
    /\ \E addr \in A : Observe("read_8", addr, 8, Word(SysBus_read_8(sysbus, addr)))

write_32(A) ==
    /\ ~panicked
    /\ \E addr \in A, value \in Values32 :
          Mutate("write_32", addr, 32, value, SysBus_write_32(sysbus, addr, value))

write_16(A) ==
    /\ ~panicked
    /\ \E addr \in A, value \in Values16 :
          Mutate("write_16", addr, 16, U32(0, value), SysBus_write_16(sysbus, addr, value))

write_8(A) ==
    /\ ~panicked
    /\ \E addr \in A, value \in Values8 :
          Mutate("write_8", addr, 8, U32(0, value), SysBus_write_8(sysbus, addr, value))

get_bytes(A) ==
    /\ ~panicked
    /\ \E addr \in A : Observe("get_bytes", addr, 0, SysBus_get_bytes(sysbus, addr))

get_bytes_mut(A) ==
    /\ ~panicked
    /\ \E addr \in A : Observe("get_bytes_mut", addr, 0, SysBus_get_bytes_mut(sysbus, addr))

get_cycles(A) ==
    /\ ~panicked
    /\ \E addr \in A, width \in {8, 16, 32} :
          Observe("get_cycles", addr, width, Word(Ok(SysBus_get_cycles(sysbus, addr, width))))

Init ==
    /\ \E bios_rom \in BiosRoms, gamepak \in Cartridges :
          sysbus = SysBus_new(bios_rom, gamepak)
    /\ last = NoCall
    /\ history = <<>>
    /\ panicked = FALSE
    /\ insn = NoInsn
    /\ out = NotRendered
    /\ overflow_checks = FALSE

Next ==
    \/ read_32(BusAddrs)
    \/ read_16(BusAddrs)
    \/ read_8(BusAddrs)
    \/ write_32(BusAddrs)
    \/ write_16(BusAddrs)
    \/ write_8(BusAddrs)
    \/ get_bytes(BusAddrs)
    \/ get_bytes_mut(BusAddrs)
    \/ get_cycles(BusAddrs)

Spec == Init /\ [][Next]_vars

\* a fresh bus receiving one call at the edges of the address map
\* no call has been made on the bus yet
Fresh == last.op = "none"

NextRoute ==
    \/ Fresh /\ read_32(BoundaryAddrs)
    \/ Fresh /\ read_16(BoundaryAddrs)
    \/ Fresh /\ read_8(BoundaryAddrs)
    \/ Fresh /\ write_32(BoundaryAddrs)
    \/ Fresh /\ write_16(BoundaryAddrs)
    \/ Fresh /\ write_8(BoundaryAddrs)
    \/ Fresh /\ get_bytes(BoundaryAddrs)
    \/ Fresh /\ get_bytes_mut(BoundaryAddrs)
    \/ Fresh /\ get_cycles(BoundaryAddrs)

SpecRoute == Init /\ [][NextRoute]_vars

(***************************************************************************)
(* Rendering as a state machine: an instruction is decoded, then           *)
(* fmt::Display renders it through the arm for its format.  The build      *)
(* either checks integer overflow (debug profile) or wraps (release).      *)
(***************************************************************************)
InitDisplay ==
    /\ sysbus = SysBus_new(NewBuf(16384, "ramp"), Cartridge_new(512))
    /\ last = NoCall
    /\ history = <<>>
    /\ panicked = FALSE
    /\ insn \in Insns
    /\ out = NotRendered
    /\ overflow_checks \in BOOLEAN

\* the formatter receives the text (or the panic cuts it short)
Render(text) ==
    /\ out.status = "none"
    /\ out' = text
    /\ UNCHANGED <<insn, overflow_checks, busvars>>

Display_B_BL ==
    /\ insn.fmt = "B_BL"
    /\ Render(fmt_branch(insn, overflow_checks))

Display_LDR_STR ==
    /\ insn.fmt = "LDR_STR"
    /\ Render(fmt_ldr_str(insn, overflow_checks))

Display_MUL_MLA ==
    /\ insn.fmt = "MUL_MLA"
    /\ Render(fmt_mul_mla(insn))

Display_MULL_MLAL ==
    /\ insn.fmt = "MULL_MLAL"
    /\ Render(fmt_mull_mlal(insn))

Display_LDR_STR_HS ==
    /\ insn.fmt \in {"LDR_STR_HS_IMM", "LDR_STR_HS_REG"}
    /\ Render(fmt_ldr_str_hs(insn, overflow_checks))

NextDisplay ==
    \/ Display_B_BL
    \/ Display_LDR_STR
    \/ Display_MUL_MLA
    \/ Display_MULL_MLAL
    \/ Display_LDR_STR_HS

SpecDisplay == InitDisplay /\ [][NextDisplay]_vars

(***************************************************************************)
(* Observations used by the properties of the bus                          *)
(***************************************************************************)
Addr_0200_1000 == U32(512, 4096)

Addr_0A20_1000 == U32(2592, 4096)

ReadOps == {"read_8", "read_16", "read_32"}

WriteOps == {"write_8", "write_16", "write_32"}

ObserveOps == ReadOps \cup {"get_bytes", "get_bytes_mut", "get_cycles"}

Members ==
    {"bios", "onboard_work_ram", "internal_work_ram", "ioregs",
     "palette_ram", "vram", "oam", "gamepak"}

AllAddrs == BusAddrs \cup BoundaryAddrs

\* every offset a call of the model can touch, and the bytes around it
ProbeOffsets == {o \in {BusOffset(a) + k : a \in BusAddrs, k \in (0 - 1)..4} : o >= 0}

\* what the three reads return at an address, as one value
ReadsAt(bus, a) == <<SysBus_read_8(bus, a), SysBus_read_16(bus, a), SysBus_read_32(bus, a)>>

\* the byte the most recent logged store put at offset i of member r,
\* or -1 when no store covers it
RECURSIVE LatestByte(_, _, _, _)
LatestByte(h, n, r, i) ==
    IF n = 0 THEN 0 - 1
    ELSE IF h[n].region = r /\ h[n].off <= i /\ i < h[n].off + h[n].n
         THEN ByteOf(h[n].value, i - h[n].off)
         ELSE LatestByte(h, n - 1, r, i)

(***************************************************************************)
(* C1 (as stated): the region is selected from the address masked to its   *)
(* low 24 bits: 0x0200_1000 and 0x0A20_1000 resolve to the same region and *)
(* the same byte offset, and a value written through the first is read     *)
(* back through the second.                                                *)
(***************************************************************************)
C1_MaskedAliasing ==
    (last.op = "write_32" /\ last.addr = Addr_0200_1000 /\ last.result.ok) =>
        /\ call_bus_method(Addr_0200_1000) = call_bus_method(Addr_0A20_1000)
        /\ BusOffset(Addr_0200_1000) = BusOffset(Addr_0A20_1000)
        /\ SysBus_read_32(sysbus, Addr_0A20_1000) = Ok(last.value)

(***************************************************************************)
(* C1 (amended): the region is selected from the full 32-bit address and   *)
(* only the offset handed to it is the address masked to its low 24 bits.  *)
(* 0x0200_1000 is onboard work RAM at offset 0x1000 and a value written    *)
(* through it is read back through it; 0x0A20_1000 is the open-bus         *)
(* fallback (masked offset 0x20_1000) and reads 0 whatever was written     *)
(* through 0x0200_1000.                                                    *)
(***************************************************************************)
C1_FullAddressRouting ==
    /\ (last.op # "none" /\ last.addr = Addr_0200_1000) =>
          /\ call_bus_method(last.addr) = "onboard_work_ram"
          /\ BusOffset(last.addr) = 4096
    /\ (last.op # "none" /\ last.addr = Addr_0A20_1000) =>
          /\ call_bus_method(last.addr) = "dummy"
          /\ BusOffset(last.addr) = 2101248
          /\ last.op \in ReadOps => last.result = Ok(Zero32)
    /\ (last.op = "write_32" /\ last.addr = Addr_0200_1000 /\ last.result.ok) =>
          /\ SysBus_read_32(sysbus, Addr_0200_1000) = Ok(last.value)
          /\ SysBus_read_32(sysbus, Addr_0A20_1000) = Ok(Zero32)

\* 0x0A20_1000 is read while onboard work RAM holds a non-zero byte at 0x1000
C1_Witness ==
    /\ last.op = "read_32"
    /\ last.addr = Addr_0A20_1000
    /\ ByteAt(sysbus.onboard_work_ram.buf, 4096) # 0

(***************************************************************************)
(* C2: every address resolves to exactly one region: the arms are pairwise *)
(* disjoint, an address inside an arm resolves to that arm's region and an *)
(* address outside all of them to the open-bus fallback; the last address  *)
(* of every arm resolves to its region and the next one to the fallback    *)
(* (0x0000_3FFF boot ROM, 0x0000_4000 open bus, 0x0400_03FE IO registers,  *)
(* 0x0400_03FF open bus).                                                  *)
(***************************************************************************)
Succ32(a) == IF a.lo = 65535 THEN U32(a.hi + 1, 0) ELSE U32(a.hi, a.lo + 1)

ArmsHit(a) == {i \in 1..Len(BusRanges) : InArm(BusRanges[i], a)}

C2_OneRegionPerAddress ==
    last.op # "none" =>
        LET a == last.addr
            r == call_bus_method(a)
        IN /\ Cardinality(ArmsHit(a)) <= 1
           /\ \A i \in ArmsHit(a) : r = BusRanges[i].region
           /\ ArmsHit(a) = {} <=> r = "dummy"
           /\ \A i \in 1..Len(BusRanges) :
                 /\ a = BusRanges[i].last => r = BusRanges[i].region
                 /\ a = Succ32(BusRanges[i].last) => r = "dummy"
           /\ a = U32(0, 16383) => r = "bios"
           /\ a = U32(0, 16384) => r = "dummy"
           /\ a = U32(1024, 1022) => r = "ioregs"
           /\ a = U32(1024, 1023) => r = "dummy"
           /\ r = "dummy" /\ last.op \in ReadOps => last.result = Ok(Zero32)
           /\ r = "bios" /\ last.op = "read_8" /\ last.result.ok =>
                 last.result = Ok(U32(0, Fill("ramp", BusOffset(a))))

\* 0x0400_03FF, one past the IO register block, has been read as open bus
C2_Witness ==
    /\ last.op = "read_8"
    /\ last.addr = U32(1024, 1023)
    /\ last.result = Ok(Zero32)

(***************************************************************************)
(* C3: the open-bus fallback is inert: at an address that resolves to it   *)
(* every read returns 0 and get_cycles returns 1 for every width, and a    *)
(* write to such an address leaves what every read on the bus returns, at  *)
(* mapped and unmapped addresses, as it was.                               *)
(***************************************************************************)
C3_OpenBusReads ==
    (last.op # "none" /\ call_bus_method(last.addr) = "dummy") =>
        /\ last.result.ok
        /\ last.op \in ReadOps => last.result.val = Zero32
        /\ last.op = "get_cycles" => last.result.val = U32(0, 1)
        /\ \A w \in {8, 16, 32} : SysBus_get_cycles(sysbus, last.addr, w) = 1
        /\ ReadsAt(sysbus, last.addr) = <<Ok(0), Ok(0), Ok(Zero32)>>

C3_OpenBusWriteStep ==
    (last'.op \in WriteOps /\ call_bus_method(last'.addr) = "dummy") =>
        \A a \in AllAddrs : ReadsAt(sysbus', a) = ReadsAt(sysbus, a)

C3_OpenBusInert == [](C3_OpenBusReads) /\ [][C3_OpenBusWriteStep]_vars

\* a write to the open bus after a store that left a non-zero byte in work RAM
C3_Witness ==
    /\ last.op = "write_32"
    /\ call_bus_method(last.addr) = "dummy"
    /\ history # <<>>
    /\ ByteAt(sysbus.onboard_work_ram.buf, 4096) # 0

(***************************************************************************)
(* C4: in every reachable state get_cycles at an address of a region       *)
(* returns that region's fixed (8, 16, 32)-bit cost: onboard work RAM      *)
(* (3,3,6), internal work RAM (1,1,1), palette RAM (1,1,2), video RAM      *)
(* (1,1,2), boot ROM (1,1,1), OAM (1,1,1), whatever the offset and         *)
(* whatever was written before.                                            *)
(***************************************************************************)
RegionCost(r, w) ==
    CASE r = "onboard_work_ram" -> (IF w = 32 THEN 6 ELSE 3)
      [] r \in {"palette_ram", "vram"} -> (IF w = 32 THEN 2 ELSE 1)
      [] r \in {"internal_work_ram", "bios", "oam"} -> 1

CostedRegions ==
    {"onboard_work_ram", "internal_work_ram", "palette_ram", "vram", "bios", "oam"}

C4_FixedCycles ==
    /\ \A a \in AllAddrs, w \in {8, 16, 32} :
          call_bus_method(a) \in CostedRegions =>
              SysBus_get_cycles(sysbus, a, w) = RegionCost(call_bus_method(a), w)
    /\ (last.op = "get_cycles" /\ call_bus_method(last.addr) \in CostedRegions) =>
          last.result = Ok(U32(0, RegionCost(call_bus_method(last.addr), last.width)))

\* a 32-bit cost lookup in onboard work RAM after two stores
C4_Witness ==
    /\ last.op = "get_cycles"
    /\ last.width = 32
    /\ last.addr = U32(512, 4097)
    /\ last.result = Ok(U32(0, 6))
    /\ Len(history) >= 2

(***************************************************************************)
(* C5: loads and stores of a Memory Region are little-endian and round     *)
(* trip: a store of width W that returned, read back at the same offset    *)
(* with width W, gives the value stored; after write_32(a, v) the byte at  *)
(* a+i is byte i of v, least significant first, and read_16(a) is the low  *)
(* half of v; and after any sequence of stores every byte reads as the     *)
(* most recent store covering it left it (or as it was initially).         *)
(***************************************************************************)
StoredRegion == call_bus_method(last.addr)

StoredMem == sysbus[StoredRegion]

C5_RoundTrip ==
    (last.op \in WriteOps /\ last.result.ok /\ StoredRegion # "dummy") =>
        LET a == BusOffset(last.addr)
            v == last.value
        IN /\ last.op = "write_8" => BoxedMemory_read_8(StoredMem, a) = Ok(v.lo)
           /\ last.op = "write_16" => BoxedMemory_read_16(StoredMem, a) = Ok(v.lo)
           /\ last.op = "write_32" =>
                 /\ BoxedMemory_read_32(StoredMem, a) = Ok(v)
                 /\ BoxedMemory_read_16(StoredMem, a) = Ok(v.lo)
                 /\ BoxedMemory_read_8(StoredMem, a) = Ok(v.lo % 256)
                 /\ BoxedMemory_read_8(StoredMem, a + 1) = Ok(v.lo \div 256)
                 /\ BoxedMemory_read_8(StoredMem, a + 2) = Ok(v.hi % 256)
                 /\ BoxedMemory_read_8(StoredMem, a + 3) = Ok(v.hi \div 256)

C5_MostRecentStore ==
    \A r \in Members, i \in ProbeOffsets :
        i < sysbus[r].buf.len =>
            LET b == LatestByte(history, Len(history), r, i)
            IN BoxedMemory_read_8(sysbus[r], i) =
                   Ok(IF b >= 0 THEN b ELSE Fill(sysbus[r].buf.fill, i))

C5_LittleEndianRoundTrip == C5_RoundTrip /\ C5_MostRecentStore

\* a 16-bit store at 0x0200_1001 over the middle of an earlier 32-bit store
\* at 0x0200_1000
C5_Witness ==
    /\ last.op = "write_16"
    /\ last.addr = U32(512, 4097)
    /\ Len(history) >= 2
    /\ history[1].off = 4096
    /\ history[1].n = 4
    /\ BoxedMemory_read_32(sysbus.onboard_work_ram, 4096) = Ok(U32(57022, 61406))

(***************************************************************************)
(* C6: a bus write changes only the W/8 bytes starting at the masked       *)
(* offset inside the region that owns the address, where it leaves the     *)
(* bytes of the value; every other byte of that region, every byte of      *)
(* every other region, the buffer lengths, the wait-state records and the  *)
(* open-bus fallback stay as they were.  Reads, byte-slice retrieval and   *)
(* get_cycles change nothing on the bus.                                   *)
(***************************************************************************)
C6_WriteStep ==
    last'.op \in WriteOps =>
        LET r == call_bus_method(last'.addr)
            a == BusOffset(last'.addr)
            n == last'.width \div 8
        IN /\ sysbus'.dummy = sysbus.dummy
           /\ \A m \in Members :
                 /\ sysbus'[m].ws = sysbus[m].ws
                 /\ sysbus'[m].buf.len = sysbus[m].buf.len
                 /\ \A i \in ProbeOffsets :
                       (m # r \/ i < a \/ i >= a + n) =>
                           ByteAt(sysbus'[m].buf, i) = ByteAt(sysbus[m].buf, i)
                 /\ DOMAIN sysbus'[m].buf.upd \subseteq
                       DOMAIN sysbus[m].buf.upd \cup (IF m = r THEN a..(a + n - 1) ELSE {})
           /\ (r # "dummy" /\ last'.result.ok) =>
                 \A k \in 0..(n - 1) :
                     ByteAt(sysbus'[r].buf, a + k) = ByteOf(last'.value, k)

C6_ObserveStep == last'.op \in ObserveOps => sysbus' = sysbus

C6_WriteFrame == [][C6_WriteStep /\ C6_ObserveStep]_vars

\* an 8-bit store into onboard work RAM while the boot ROM buffer holds a
\* byte stored earlier
C6_Witness ==
    /\ last.op = "write_8"
    /\ last.addr = Addr_0200_1000
    /\ ByteAt(sysbus.bios.buf, 16382) = 239
    /\ ByteAt(sysbus.onboard_work_ram.buf, 4096) = 171

(***************************************************************************)
(* Expected renderings, computed from the instruction's fields             *)
(***************************************************************************)
Rendered == out.status # "none"

\* fetch-PC + 8 + offset within a 32-bit word
PcRelative(pc, offset) == wrapping_add(wrapping_add(pc, U32(0, 8)), offset)

(***************************************************************************)
(* C7: a branch renders its target as the absolute address                 *)
(* fetch-PC + 8 + branch offset (within a 32-bit word) for every fetch-PC  *)
(* and every offset, and the mnemonic carries 'l' exactly when the link    *)
(* bit is set; with link set, fetch-PC 0x2000 and offset -8 the target is  *)
(* 0x2000.                                                                 *)
(***************************************************************************)
C7_BranchTarget ==
    (insn.fmt = "B_BL" /\ Rendered) =>
        /\ out = Written(<<"b">> \o (IF insn.link_flag THEN <<"l">> ELSE <<>>)
                             \o ArmCond_fmt(insn.cond) \o <<"\t">>
                             \o FmtHexAlt(PcRelative(insn.pc, insn.branch_offset)))
        /\ (insn.link_flag /\ insn.cond = "AL" /\ insn.pc = U32(0, 8192)
                /\ insn.branch_offset = U32(65535, 65528)) =>
              out.text = <<"b", "l", "\t", "0x", "2", "0", "0", "0">>

(***************************************************************************)
(* C8: for a load/store (single or halfword/signed) with the program       *)
(* counter as base and an immediate offset imm, the trailing comment shows *)
(* imm + fetch-PC + 8 for every fetch-PC and every imm (0x1000 and +4 give *)
(* 0x100c); with any other base the comment shows imm without the +8.      *)
(***************************************************************************)
TransferOffset ==
    IF insn.fmt = "LDR_STR" THEN insn.ldr_str_offset ELSE insn.ldr_str_hs_offset.val

IsTransfer ==
    \/ insn.fmt = "LDR_STR"
    \/ /\ insn.fmt \in {"LDR_STR_HS_IMM", "LDR_STR_HS_REG"}
       /\ insn.halfword_data_transfer_type.ok

\* the tokens after the comment mark, or <<>> when there is no comment
RECURSIVE CommentOf(_)
CommentOf(t) ==
    IF t = <<>> THEN <<>>
    ELSE IF Head(t) = "\t; " THEN Tail(t)
    ELSE CommentOf(Tail(t))

C8_PcRelativeComment ==
    (IsTransfer /\ Rendered /\ TransferOffset.kind = "ImmediateValue") =>
        /\ out.status = "ok"
        /\ CommentOf(out.text) =
              FmtHexAlt(IF insn.rn = REG_PC
                        THEN PcRelative(insn.pc, TransferOffset.value)
                        ELSE TransferOffset.value)
        /\ (insn.rn = REG_PC /\ insn.pc = U32(0, 4096)
                /\ TransferOffset.value = U32(0, 4)) =>
              CommentOf(out.text) = <<"0x", "1", "0", "0", "c">>

(***************************************************************************)
(* C9: a shifted-register operand is rendered as the register name alone   *)
(* if and only if it is the by-immediate-amount form with amount 0 and     *)
(* operator LSL; amount 0 with LSR, ASR or ROR, every amount from 1 to 31  *)
(* and every by-register form are rendered "register, operator amount".    *)
(***************************************************************************)
\* the offset part of a rendered load/store: the tokens between the base
\* register and the closing of the address
OffsetTokens ==
    LET t == out.text
        n == Len(t)
        from == CHOOSE k \in 1..n : t[k] = "["
    IN IF insn.pre_index_flag
       THEN SubSeq(t, from + 3, (CHOOSE k \in 1..n : t[k] = "]") - 1)
       ELSE SubSeq(t, from + 3, n)

C9_NoShiftRecognition ==
    (insn.fmt = "LDR_STR" /\ Rendered /\ insn.ldr_str_offset.kind = "ShiftedRegister"
        /\ insn.ldr_str_offset.added # "None") =>
        LET o == insn.ldr_str_offset
            sh == o.shift
            sign == IF o.added = "Some(true)" THEN <<>> ELSE <<"-">>
            canonical == sh.kind = "ByAmount" /\ sh.val = 0 /\ sh.typ = "LSL"
        IN /\ out.status = "ok"
           /\ canonical <=> OffsetTokens = sign \o <<reg_string(o.reg)>>
           /\ (~canonical /\ sh.kind = "ByAmount") =>
                 OffsetTokens = sign \o <<reg_string(o.reg), ", ",
                                         BarrelShiftOpCode_fmt(sh.typ), " #">>
                                     \o Decimal(sh.val)
           /\ sh.kind = "ByRegister" =>
                 OffsetTokens = sign \o <<reg_string(o.reg), ", ",
                                         BarrelShiftOpCode_fmt(sh.typ), " ",
                                         reg_string(sh.val)>>

\* an offset register with `lsr #0` has been rendered with its shift
C9_Witness ==
    /\ insn.fmt = "LDR_STR"
    /\ insn.ldr_str_offset = ShiftedRegister(3, ByAmount(0, "LSR"), "Some(true)")
    /\ insn.pre_index_flag
    /\ out.status = "ok"
    /\ OffsetTokens = <<"r3", ", ", "lsr", " #", "0">>

(***************************************************************************)
(* C10: both long-multiply forms, MULL and MLAL, render a sign marker ('s' *)
(* when the sign bit is set, 'u' otherwise) before the mnemonic and        *)
(* exactly four registers: low destination, high destination, Rm and Rs;   *)
(* MUL renders destination, Rm, Rs and MLA also the accumulator Rn.        *)
(***************************************************************************)
C10_MultiplyOperands ==
    /\ (insn.fmt = "MULL_MLAL" /\ Rendered) =>
          out = Written(<<(IF insn.u_flag THEN "s" ELSE "u"),
                          (IF insn.accumulate_flag THEN "mlal" ELSE "mull")>>
                            \o (IF insn.set_cond_flag THEN <<"s">> ELSE <<>>)
                            \o ArmCond_fmt(insn.cond)
                            \o <<"\t", reg_string(insn.rd_lo), ", ", reg_string(insn.rd_hi),
                                 ", ", reg_string(insn.rm), ", ", reg_string(insn.rs)>>)
    /\ (insn.fmt = "MUL_MLA" /\ Rendered) =>
          out = Written(<<(IF insn.accumulate_flag THEN "mla" ELSE "mul")>>
                            \o (IF insn.set_cond_flag THEN <<"s">> ELSE <<>>)
                            \o ArmCond_fmt(insn.cond)
                            \o <<"\t", reg_string(insn.rd), ", ", reg_string(insn.rm),
                                 ", ", reg_string(insn.rs)>>
                            \o (IF insn.accumulate_flag
                                THEN <<", ", reg_string(insn.rn)>> ELSE <<>>))

(***************************************************************************)
(* C11: rendering a halfword/signed transfer never fails: an unrecognized  *)
(* transfer type renders as the marker "<undefined>" and the call returns, *)
(* and a recognized one renders to completion for every immediate or       *)
(* register offset the instruction can carry, without a panic.             *)
(***************************************************************************)
IsHalfwordTransfer == insn.fmt \in {"LDR_STR_HS_IMM", "LDR_STR_HS_REG"}

C11_HalfwordNeverFails ==
    (IsHalfwordTransfer /\ Rendered) =>
        /\ out.status = "ok"
        /\ ~insn.halfword_data_transfer_type.ok => out.text = <<"<undefined>">>
        /\ insn.halfword_data_transfer_type.ok =>
              /\ Len(out.text) >= 2
              /\ out.text[1] = (IF insn.load_flag THEN "ldr" ELSE "str")
              /\ out.text[2] =
                    ArmHalfwordTransferType_fmt(insn.halfword_data_transfer_type.val)
              /\ \E k \in 1..Len(out.text) : out.text[k] \in {"]", "], "}

(***************************************************************************)
(* A fresh bus receiving one call at the first address, the last word, the *)
(* last halfword or the last byte of a region that SysBus::new allocates.  *)
(***************************************************************************)
SelfAllocated ==
    {"onboard_work_ram", "internal_work_ram", "palette_ram", "vram", "oam"}

\* 0x0200_0000.., 0x0300_0000.., 0x0500_0000.., 0x0600_0000.., 0x0700_0000..
EdgeAddrs ==
    { U32(512, 0),  U32(515, 65532),  U32(515, 65534),  U32(515, 65535),
      U32(768, 0),  U32(768, 32764),  U32(768, 32766),  U32(768, 32767),
      U32(1280, 0), U32(1280, 1020),  U32(1280, 1022),  U32(1280, 1023),
      U32(1536, 0), U32(1537, 32764), U32(1537, 32766), U32(1537, 32767),
      U32(1792, 0), U32(1792, 1020),  U32(1792, 1022),  U32(1792, 1023) }

NextEdge ==
    \/ Fresh /\ read_32(EdgeAddrs)
    \/ Fresh /\ read_16(EdgeAddrs)
    \/ Fresh /\ read_8(EdgeAddrs)
    \/ Fresh /\ write_32(EdgeAddrs)
    \/ Fresh /\ write_16(EdgeAddrs)
    \/ Fresh /\ write_8(EdgeAddrs)
    \/ Fresh /\ get_bytes(EdgeAddrs)
    \/ Fresh /\ get_bytes_mut(EdgeAddrs)
    \/ Fresh /\ get_cycles(EdgeAddrs)

SpecEdge == Init /\ [][NextEdge]_vars

(***************************************************************************)
(* C12: for every address routed to a region the bus allocates itself      *)
(* (onboard work RAM, internal work RAM, palette RAM, video RAM, OAM) the  *)
(* offset handed to the region, address AND 0xFF_FFFF, is strictly less    *)
(* than the region's buffer length, so an 8-bit access and every           *)
(* width-aligned 16-bit or 32-bit access at a routed address stays inside  *)
(* the buffer: it returns, and a store puts all its bytes below the end.   *)
(***************************************************************************)
\* the arm's addresses lie in one 16 MiB window, where the mask is monotone,
\* and the offset of its last address is inside the region's buffer
ArmInsideBuffer(arm, mem) ==
    /\ arm.first.hi \div 256 = arm.last.hi \div 256
    /\ BusOffset(arm.first) <= BusOffset(arm.last)
    /\ BusOffset(arm.last) < mem.buf.len
    /\ mem.buf.len % 4 = 0

C12_OffsetsInsideBuffers ==
    /\ \A i \in 1..Len(BusRanges) :
          BusRanges[i].region \in SelfAllocated =>
              ArmInsideBuffer(BusRanges[i], sysbus[BusRanges[i].region])
    /\ (last.op # "none" /\ call_bus_method(last.addr) \in SelfAllocated) =>
          LET off == BusOffset(last.addr)
              mem == sysbus[call_bus_method(last.addr)]
              n   == last.width \div 8
              aligned == last.op \in ReadOps \cup WriteOps /\ off % n = 0
          IN /\ off < mem.buf.len
             /\ \A k \in DOMAIN mem.buf.upd : k < mem.buf.len
             /\ last.op \in {"get_bytes", "get_bytes_mut"} => last.result.ok
             /\ aligned =>
                   /\ off + n <= mem.buf.len
                   /\ last.result.ok
             /\ (aligned /\ last.op \in WriteOps) =>
                   /\ history # <<>>
                   /\ history[Len(history)].n = n
                   /\ \A k \in 0..(n - 1) :
                         ByteAt(mem.buf, off + k) = ByteOf(last.value, k)

\* the last word of video RAM, 0x0601_7FFC, has been stored and reads back
C12_Witness ==
    /\ last.op = "write_32"
    /\ last.addr = U32(1537, 32764)
    /\ last.result.ok
    /\ BoxedMemory_read_32(sysbus.vram, 98300) = Ok(last.value)

(***************************************************************************)
(* Calls on the bus at addresses of the cartridge range: the first address *)
(* of the range, the next word, and the same two 16 MiB further up.        *)
(***************************************************************************)
\* 0x0800_0000, 0x0800_0004, 0x0900_0000, 0x0900_0004
CartAddrs == { U32(2048, 0), U32(2048, 4), U32(2304, 0), U32(2304, 4) }

NextCart ==
    \/ read_32(CartAddrs)
    \/ read_16(CartAddrs)
    \/ read_8(CartAddrs)
    \/ write_32(CartAddrs)
    \/ write_16(CartAddrs)
    \/ write_8(CartAddrs)
    \/ get_bytes(CartAddrs)
    \/ get_bytes_mut(CartAddrs)
    \/ get_cycles(CartAddrs)

SpecCart == Init /\ [][NextCart]_vars

(***************************************************************************)
(* C13: within one region's address range the mapping from bus address to  *)
(* region offset is injective: two distinct addresses routed to the same   *)
(* named region (such as 0x0800_0000 and 0x0900_0000 in the cartridge      *)
(* range) are handed distinct offsets, and a write at one of them leaves   *)
(* what a read at the other returns as it was.                             *)
(***************************************************************************)
SameRegion(a, b) ==
    /\ a # b
    /\ call_bus_method(a) = call_bus_method(b)
    /\ call_bus_method(a) # "dummy"

C13_DistinctOffsets ==
    last.op # "none" =>
        \A a \in CartAddrs :
            SameRegion(a, last.addr) => BusOffset(a) # BusOffset(last.addr)

C13_WriteUnobservedStep ==
    (last'.op \in WriteOps /\ history' # history) =>
        \A a \in CartAddrs :
            SameRegion(a, last'.addr) => ReadsAt(sysbus', a) = ReadsAt(sysbus, a)

C13_InjectiveWithinRegion ==
    [](C13_DistinctOffsets) /\ [][C13_WriteUnobservedStep]_vars

====
